---- MODULE Spec2Model ----
(***************************************************************************)
(* State-reconciliation logic of homebridge-remootio                       *)
(* (src/src/remootio-accessory.ts).  The file holds two implementations of *)
(* RemootioHomebridgeAccessory: the accessory plugin (lines 124-396,       *)
(* definitions prefixed A_) and the platform accessory (lines 484-783,     *)
(* definitions prefixed P_).  One instance is modelled; which of the two   *)
(* classes it is, is fixed at construction (variable impl).                *)
(***************************************************************************)
EXTENDS Integers, Sequences, FiniteSets, TLC

(* Bound on the number of Adapter calls (sendQuery, sendOpen, sendClose,   *)
(* authenticate) made in one behaviour.                                    *)
MaxCmds == 4

(* hap.Characteristic.CurrentDoorState / TargetDoorState values, in the    *)
(* order of garageDoorOpenerStateToString.                                 *)
OPEN == 0
CLOSED == 1
OPENING == 2
CLOSING == 3
STOPPED == 4
(* private currentState = -1 / targetState = -1: nothing received yet.     *)
UNKNOWN == -1
(* Encoding of a JavaScript undefined/null CharacteristicValue, and of a   *)
(* callback invoked without a value argument.                              *)
NoValue == -2

Undefined == "undefined"

(* Messages of the Error objects handed to the callbacks.                  *)
NoValueAvailable == "No value available"
InvalidValue == "no value"
NotConnected == "Not Connected"
NoError == "null"

Impls == {"accessory", "platform"}

(* The RemootioDevice objects: the one the modelled instance constructs,   *)
(* the one a second accessory instance constructs, and none yet.           *)
NoDevice == 0
FirstDevice == 1
SecondDevice == 2
Devices == {FirstDevice, SecondDevice}

(* Values of event.state / response.state.  The handlers take any string;  *)
(* "no sensor" is what the device reports without a door sensor.           *)
StateStrings == {"open", "closed", "opening", "closing", "stopped", "no sensor"}

VARIABLES impl, currentState, targetState, isConnected, isAuthenticated,
          nQuery, nOpen, nClose, nAuth, sinkValue, pushed, reply, last, scn,
          device, thisDevice, other, rcv

vars == <<impl, currentState, targetState, isConnected, isAuthenticated,
          nQuery, nOpen, nClose, nAuth, sinkValue, pushed, reply, last, scn,
          device, thisDevice, other, rcv>>

(***************************************************************************)
(* Messages delivered with the 'incomingmessage' signal: (frame,           *)
(* decryptedPayload).  hasPayload is decryptedPayload !== undefined;       *)
(* hasEvent / hasResponse are payload.event / payload.response !==         *)
(* undefined; a field that is absent holds Undefined.                      *)
(***************************************************************************)
NoPart == [type |-> Undefined, state |-> Undefined, keyType |-> Undefined]

EventMsg(t, s, k) ==
  [frame |-> "ENCRYPTED", hasPayload |-> TRUE, hasEvent |-> TRUE, hasResponse |-> FALSE,
   event |-> [type |-> t, state |-> s, keyType |-> k], response |-> NoPart]

ResponseMsg(t, s) ==
  [frame |-> "ENCRYPTED", hasPayload |-> TRUE, hasEvent |-> FALSE, hasResponse |-> TRUE,
   event |-> NoPart, response |-> [type |-> t, state |-> s, keyType |-> Undefined]]

FrameMsg(f) ==
  [frame |-> f, hasPayload |-> FALSE, hasEvent |-> FALSE, hasResponse |-> FALSE,
   event |-> NoPart, response |-> NoPart]

NoMsg == FrameMsg(Undefined)

Messages ==
  {EventMsg("StateChange", s, Undefined) : s \in StateStrings \cup {Undefined}}
  \cup {EventMsg("RelayTrigger", s, k) :
          s \in {"open", "closed", "no sensor"},
          k \in {"api key", "master key", Undefined}}
  \cup {EventMsg("LeftOpen", "open", Undefined)}
  \cup {ResponseMsg("QUERY", s) : s \in StateStrings}
  \cup {ResponseMsg("TRIGGER", s) : s \in {"open", "closed"}}
  \cup {FrameMsg(f) : f \in {"PING", "CHALLENGE"}}

(* The values the hub hands to the SET handler.                            *)
CharacteristicValues == {NoValue, OPEN, CLOSED, OPENING, CLOSING, STOPPED}

(***************************************************************************)
(* The object state the handlers work on, as a record.                     *)
(***************************************************************************)
This ==
  [currentState |-> currentState, targetState |-> targetState,
   isConnected |-> isConnected, isAuthenticated |-> isAuthenticated,
   nQuery |-> nQuery, nOpen |-> nOpen, nClose |-> nClose, nAuth |-> nAuth,
   pushed |-> <<>>, reply |-> <<>>, device |-> thisDevice, rcv |-> rcv]

Callback(this, err, value) ==
  [this EXCEPT !.reply = Append(@, [err |-> err, value |-> value])]

(***************************************************************************)
(* Calls on this.device.  The n... fields count the calls the instance     *)
(* makes; rcv[d] counts the calls RemootioDevice d receives.               *)
(***************************************************************************)
sendQuery(this) ==
  [this EXCEPT !.nQuery = @ + 1, !.rcv = [@ EXCEPT ![this.device] = @ + 1]]

sendOpen(this) ==
  [this EXCEPT !.nOpen = @ + 1, !.rcv = [@ EXCEPT ![this.device] = @ + 1]]

sendClose(this) ==
  [this EXCEPT !.nClose = @ + 1, !.rcv = [@ EXCEPT ![this.device] = @ + 1]]

authenticate(this) ==
  [this EXCEPT !.nAuth = @ + 1, !.rcv = [@ EXCEPT ![this.device] = @ + 1]]

updateValue(this, v) == [this EXCEPT !.pushed = Append(@, v)]

(***************************************************************************)
(* Accessory plugin, lines 124-396.                                        *)
(***************************************************************************)
(* Variant: the 'opening' case pushes the value of the 'open' case. *)
A_setCurrentDoorState_WrongPush(this, state) ==
  CASE state = "open" -> updateValue([this EXCEPT !.currentState = OPEN], OPEN)
    [] state = "closed" -> updateValue([this EXCEPT !.currentState = CLOSED], CLOSED)
    [] state = "opening" -> updateValue([this EXCEPT !.currentState = OPENING], OPEN)
    [] state = "closing" -> updateValue([this EXCEPT !.currentState = CLOSING], CLOSING)
    [] OTHER -> this

A_setCurrentDoorState(this, state) ==
  CASE state = "open" -> updateValue([this EXCEPT !.currentState = OPEN], OPEN)
    [] state = "closed" -> updateValue([this EXCEPT !.currentState = CLOSED], CLOSED)
    [] state = "opening" -> updateValue([this EXCEPT !.currentState = OPENING], OPENING)
    [] state = "closing" -> updateValue([this EXCEPT !.currentState = CLOSING], CLOSING)
    [] OTHER -> this

A_handleIncomingMessage(this, m) ==
  IF m.hasPayload
  THEN LET e == m.event
           r == m.response
           t1 == IF m.hasEvent /\ e.state # Undefined
                 THEN LET a == IF e.type = "StateChange"
                               THEN A_setCurrentDoorState(this, e.state)
                               ELSE this
                          b == IF e.type = "RelayTrigger" /\ e.state = "open"
                               THEN A_setCurrentDoorState(a, "closing")
                               ELSE a
                          c == IF e.type = "RelayTrigger" /\ e.state = "closed"
                               THEN A_setCurrentDoorState(b, "opening")
                               ELSE b
                      IN  c
                 ELSE this
           t2 == IF m.hasResponse /\ r.state # Undefined
                 THEN IF r.type = "QUERY"
                      THEN A_setCurrentDoorState(t1, r.state)
                      ELSE t1
                 ELSE t1
       IN  t2
  ELSE this

(* Variant: the error path returns before the query is sent. *)
A_getCurrentStateHandler_EarlyReturn(this) ==
  IF this.currentState < 0
  THEN Callback(this, NoValueAvailable, NoValue)
  ELSE sendQuery(Callback(this, NoError, this.currentState))

(* Variant: the query is sent through the module-level device variable. *)
A_getCurrentStateHandler_ModuleDevice(this) ==
  LET t == IF this.currentState < 0
           THEN Callback(this, NoValueAvailable, NoValue)
           ELSE Callback(this, NoError, this.currentState)
      u == sendQuery([t EXCEPT !.device = device])
  IN  [u EXCEPT !.device = this.device]

A_getCurrentStateHandler(this) ==
  LET t == IF this.currentState < 0
           THEN Callback(this, NoValueAvailable, NoValue)
           ELSE Callback(this, NoError, this.currentState)
  IN  sendQuery(t)

(* Variant: the current state is returned but not stored as the target. *)
A_getTargetStateHandler_NoAdopt(this) ==
  IF this.targetState < 0
  THEN IF this.currentState < 0
       THEN Callback(this, NoValueAvailable, NoValue)
       ELSE Callback(this, NoError, this.currentState)
  ELSE Callback(this, NoError, this.targetState)

(* Variant: the test for an uninitialised target state is missing. *)
A_getTargetStateHandler_NoCheck(this) ==
  Callback(this, NoError, this.targetState)

A_getTargetStateHandler(this) ==
  IF this.targetState < 0
  THEN IF this.currentState < 0
       THEN Callback(this, NoValueAvailable, NoValue)
       ELSE LET t == [this EXCEPT !.targetState = this.currentState]
            IN  Callback(t, NoError, t.targetState)
  ELSE Callback(this, NoError, this.targetState)

(* Variant: the test for an undefined or null value is missing. *)
A_setTargetStateHandler_NoValueCheck(this, newValue) ==
  LET oldState == this.targetState
      newState == newValue
  IN  IF newState # oldState
      THEN IF ~this.isConnected \/ ~this.isAuthenticated
           THEN Callback(this, NotConnected, NoValue)
           ELSE LET t == [this EXCEPT !.targetState = newState]
                    u == IF newState = OPEN
                         THEN sendOpen(t)
                         ELSE IF newState = CLOSED
                              THEN sendClose(t)
                              ELSE t
                IN  Callback(u, NoError, NoValue)
      ELSE Callback(this, NoError, NoValue)

(* Variant: targetState is assigned before the connectivity check. *)
A_setTargetStateHandler_AssignFirst(this, newValue) ==
  IF newValue = NoValue
  THEN Callback(this, InvalidValue, NoValue)
  ELSE LET oldState == this.targetState
           newState == newValue
           t == [this EXCEPT !.targetState = newState]
       IN  IF newState # oldState
           THEN IF ~this.isConnected \/ ~this.isAuthenticated
                THEN Callback(t, NotConnected, NoValue)
                ELSE LET u == IF newState = OPEN
                              THEN sendOpen(t)
                              ELSE IF newState = CLOSED
                                   THEN sendClose(t)
                                   ELSE t
                     IN  Callback(u, NoError, NoValue)
           ELSE Callback(this, NoError, NoValue)

(* Variant: sendOpen and sendClose swapped. *)
A_setTargetStateHandler_Swapped(this, newValue) ==
  IF newValue = NoValue
  THEN Callback(this, InvalidValue, NoValue)
  ELSE LET oldState == this.targetState
           newState == newValue
       IN  IF newState # oldState
           THEN IF ~this.isConnected \/ ~this.isAuthenticated
                THEN Callback(this, NotConnected, NoValue)
                ELSE LET t == [this EXCEPT !.targetState = newState]
                         u == IF newState = OPEN
                              THEN sendClose(t)
                              ELSE IF newState = CLOSED
                                   THEN sendOpen(t)
                                   ELSE t
                     IN  Callback(u, NoError, NoValue)
           ELSE Callback(this, NoError, NoValue)

A_setTargetStateHandler(this, newValue) ==
  IF newValue = NoValue
  THEN Callback(this, InvalidValue, NoValue)
  ELSE LET oldState == this.targetState
           newState == newValue
       IN  IF newState # oldState
           THEN IF ~this.isConnected \/ ~this.isAuthenticated
                THEN Callback(this, NotConnected, NoValue)
                ELSE LET t == [this EXCEPT !.targetState = newState]
                         u == IF newState = OPEN
                              THEN sendOpen(t)
                              ELSE IF newState = CLOSED
                                   THEN sendClose(t)
                                   ELSE t
                     IN  Callback(u, NoError, NoValue)
           ELSE Callback(this, NoError, NoValue)

A_onConnected(this) == authenticate(this)

(***************************************************************************)
(* Platform accessory, lines 484-783.                                      *)
(***************************************************************************)
(* Variant: the 'closing' case is missing. *)
P_setCurrentDoorState_NoClosing(this, state) ==
  CASE state = "open" -> updateValue([this EXCEPT !.currentState = OPEN], OPEN)
    [] state = "closed" -> updateValue([this EXCEPT !.currentState = CLOSED], CLOSED)
    [] state = "opening" -> updateValue([this EXCEPT !.currentState = OPENING], OPENING)
    [] OTHER -> this

P_setCurrentDoorState(this, state) ==
  CASE state = "open" -> updateValue([this EXCEPT !.currentState = OPEN], OPEN)
    [] state = "closed" -> updateValue([this EXCEPT !.currentState = CLOSED], CLOSED)
    [] state = "opening" -> updateValue([this EXCEPT !.currentState = OPENING], OPENING)
    [] state = "closing" -> updateValue([this EXCEPT !.currentState = CLOSING], CLOSING)
    [] OTHER -> this

(* Variant: a query response reporting closed also forces the target. *)
P_handleIncomingMessage_QuerySyncsTarget(this, m) ==
  IF m.hasPayload
  THEN LET e == m.event
           r == m.response
           t1 == IF m.hasEvent /\ e.state # Undefined
                 THEN LET a == IF e.type = "StateChange"
                               THEN LET a1 == P_setCurrentDoorState(this, e.state)
                                    IN  IF e.state = "closed"
                                        THEN [a1 EXCEPT !.targetState = CLOSED]
                                        ELSE a1
                               ELSE this
                          b == IF e.type = "RelayTrigger" /\ e.state = "open"
                                  /\ e.keyType = "api key"
                               THEN P_setCurrentDoorState(a, "closing")
                               ELSE a
                          c == IF e.type = "RelayTrigger" /\ e.state = "closed"
                                  /\ e.keyType = "api key"
                               THEN P_setCurrentDoorState(b, "opening")
                               ELSE b
                      IN  c
                 ELSE this
           t2 == IF m.hasResponse /\ r.state # Undefined
                 THEN IF r.type = "QUERY"
                      THEN LET q == P_setCurrentDoorState(t1, r.state)
                           IN  IF r.state = "closed"
                               THEN [q EXCEPT !.targetState = CLOSED]
                               ELSE q
                      ELSE t1
                 ELSE t1
       IN  t2
  ELSE this

(* Variant: a query response does not override an inferred OPENING or      *)
(* CLOSING.                                                                *)
P_handleIncomingMessage_KeepInferred(this, m) ==
  IF m.hasPayload
  THEN LET e == m.event
           r == m.response
           t1 == IF m.hasEvent /\ e.state # Undefined
                 THEN LET a == IF e.type = "StateChange"
                               THEN LET a1 == P_setCurrentDoorState(this, e.state)
                                    IN  IF e.state = "closed"
                                        THEN [a1 EXCEPT !.targetState = CLOSED]
                                        ELSE a1
                               ELSE this
                          b == IF e.type = "RelayTrigger" /\ e.state = "open"
                                  /\ e.keyType = "api key"
                               THEN P_setCurrentDoorState(a, "closing")
                               ELSE a
                          c == IF e.type = "RelayTrigger" /\ e.state = "closed"
                                  /\ e.keyType = "api key"
                               THEN P_setCurrentDoorState(b, "opening")
                               ELSE b
                      IN  c
                 ELSE this
           t2 == IF m.hasResponse /\ r.state # Undefined
                 THEN IF r.type = "QUERY" /\ t1.currentState \notin {OPENING, CLOSING}
                      THEN P_setCurrentDoorState(t1, r.state)
                      ELSE t1
                 ELSE t1
       IN  t2
  ELSE this

P_handleIncomingMessage(this, m) ==
  IF m.hasPayload
  THEN LET e == m.event
           r == m.response
           t1 == IF m.hasEvent /\ e.state # Undefined
                 THEN LET a == IF e.type = "StateChange"
                               THEN LET a1 == P_setCurrentDoorState(this, e.state)
                                    IN  IF e.state = "closed"
                                        THEN [a1 EXCEPT !.targetState = CLOSED]
                                        ELSE a1
                               ELSE this
                          b == IF e.type = "RelayTrigger" /\ e.state = "open"
                                  /\ e.keyType = "api key"
                               THEN P_setCurrentDoorState(a, "closing")
                               ELSE a
                          c == IF e.type = "RelayTrigger" /\ e.state = "closed"
                                  /\ e.keyType = "api key"
                               THEN P_setCurrentDoorState(b, "opening")
                               ELSE b
                      IN  c
                 ELSE this
           t2 == IF m.hasResponse /\ r.state # Undefined
                 THEN IF r.type = "QUERY"
                      THEN P_setCurrentDoorState(t1, r.state)
                      ELSE t1
                 ELSE t1
       IN  t2
  ELSE this

P_getCurrentStateHandler(this) ==
  LET t == IF this.currentState < 0
           THEN Callback(this, NoValueAvailable, NoValue)
           ELSE Callback(this, NoError, this.currentState)
  IN  sendQuery(t)

P_getTargetStateHandler(this) ==
  IF this.targetState < 0
  THEN IF this.currentState < 0
       THEN Callback(this, NoValueAvailable, NoValue)
       ELSE LET t == [this EXCEPT !.targetState = this.currentState]
            IN  Callback(t, NoError, t.targetState)
  ELSE Callback(this, NoError, this.targetState)

(* Variant: the current state is set optimistically when a command is     *)
(* sent.                                                                   *)
P_setTargetStateHandler_Optimistic(this, newValue) ==
  IF newValue = NoValue
  THEN Callback(this, InvalidValue, NoValue)
  ELSE LET oldState == this.targetState
           newState == newValue
       IN  IF newState # oldState
           THEN IF ~this.isConnected \/ ~this.isAuthenticated
                THEN Callback(this, NotConnected, NoValue)
                ELSE LET t == [this EXCEPT !.targetState = newState]
                         u == IF newState = OPEN
                              THEN sendOpen([t EXCEPT !.currentState = OPENING])
                              ELSE IF newState = CLOSED
                                   THEN sendClose([t EXCEPT !.currentState = CLOSING])
                                   ELSE t
                     IN  Callback(u, NoError, NoValue)
           ELSE Callback(this, NoError, NoValue)

(* Variant: the return after the 'Not Connected' callback is missing. *)
P_setTargetStateHandler_NoReturn(this, newValue) ==
  IF newValue = NoValue
  THEN Callback(this, InvalidValue, NoValue)
  ELSE LET oldState == this.targetState
           newState == newValue
       IN  IF newState # oldState
           THEN LET g == IF ~this.isConnected \/ ~this.isAuthenticated
                         THEN Callback(this, NotConnected, NoValue)
                         ELSE this
                    t == [g EXCEPT !.targetState = newState]
                    u == IF newState = OPEN
                         THEN sendOpen(t)
                         ELSE IF newState = CLOSED
                              THEN sendClose(t)
                              ELSE t
                IN  Callback(u, NoError, NoValue)
           ELSE Callback(this, NoError, NoValue)

(* Variant: the connectivity check is missing. *)
P_setTargetStateHandler_NoGate(this, newValue) ==
  IF newValue = NoValue
  THEN Callback(this, InvalidValue, NoValue)
  ELSE LET oldState == this.targetState
           newState == newValue
       IN  IF newState # oldState
           THEN LET t == [this EXCEPT !.targetState = newState]
                    u == IF newState = OPEN
                         THEN sendOpen(t)
                         ELSE IF newState = CLOSED
                              THEN sendClose(t)
                              ELSE t
                IN  Callback(u, NoError, NoValue)
           ELSE Callback(this, NoError, NoValue)

(* Variant: the comparison with the previous target state is missing. *)
P_setTargetStateHandler_NoIdempotence(this, newValue) ==
  IF newValue = NoValue
  THEN Callback(this, InvalidValue, NoValue)
  ELSE LET newState == newValue
       IN  IF ~this.isConnected \/ ~this.isAuthenticated
           THEN Callback(this, NotConnected, NoValue)
           ELSE LET t == [this EXCEPT !.targetState = newState]
                    u == IF newState = OPEN
                         THEN sendOpen(t)
                         ELSE IF newState = CLOSED
                              THEN sendClose(t)
                              ELSE t
                IN  Callback(u, NoError, NoValue)

P_setTargetStateHandler(this, newValue) ==
  IF newValue = NoValue
  THEN Callback(this, InvalidValue, NoValue)
  ELSE LET oldState == this.targetState
           newState == newValue
       IN  IF newState # oldState
           THEN IF ~this.isConnected \/ ~this.isAuthenticated
                THEN Callback(this, NotConnected, NoValue)
                ELSE LET t == [this EXCEPT !.targetState = newState]
                         u == IF newState = OPEN
                              THEN sendOpen(t)
                              ELSE IF newState = CLOSED
                                   THEN sendClose(t)
                                   ELSE t
                     IN  Callback(u, NoError, NoValue)
           ELSE Callback(this, NoError, NoValue)

(* Variant: the listener only logs. *)
P_onConnected_NoAuthenticate(this) == this

P_onConnected(this) == authenticate(this)

(***************************************************************************)
(* Dispatch on the class of the instance.                                  *)
(***************************************************************************)
handleIncomingMessage(this, m) ==
  IF impl = "accessory" THEN A_handleIncomingMessage(this, m)
                        ELSE P_handleIncomingMessage(this, m)

getCurrentStateHandler(this) ==
  IF impl = "accessory" THEN A_getCurrentStateHandler(this)
                        ELSE P_getCurrentStateHandler(this)

getTargetStateHandler(this) ==
  IF impl = "accessory" THEN A_getTargetStateHandler(this)
                        ELSE P_getTargetStateHandler(this)

setTargetStateHandler(this, newValue) ==
  IF impl = "accessory" THEN A_setTargetStateHandler(this, newValue)
                        ELSE P_setTargetStateHandler(this, newValue)

onConnected(this) ==
  IF impl = "accessory" THEN A_onConnected(this) ELSE P_onConnected(this)

(***************************************************************************)
(* The state machine.                                                      *)
(***************************************************************************)
Total(this) == this.nQuery + this.nOpen + this.nClose + this.nAuth

NoPush == UNKNOWN

(* Store the object state a handler leaves behind.  The Adapter's flags    *)
(* are read-only for the handlers.                                         *)
Commit(t) ==
  /\ Total(t) <= MaxCmds
  /\ currentState' = t.currentState
  /\ targetState' = t.targetState
  /\ nQuery' = t.nQuery
  /\ nOpen' = t.nOpen
  /\ nClose' = t.nClose
  /\ nAuth' = t.nAuth
  /\ pushed' = t.pushed
  /\ reply' = t.reply
  /\ rcv' = t.rcv
  /\ UNCHANGED <<device, thisDevice, other>>
  /\ sinkValue' = IF t.pushed = <<>> THEN sinkValue ELSE t.pushed[Len(t.pushed)]

Op(op, arg, m) == [op |-> op, arg |-> arg, msg |-> m]

(***************************************************************************)
(* Progress through the end-to-end scenario of the specification           *)
(* (section 8): scn = k when the last k steps were its first k steps,      *)
(* begun on a fresh, connected and authenticated instance; 0 otherwise.    *)
(***************************************************************************)
Fresh ==
  /\ currentState = UNKNOWN
  /\ targetState = UNKNOWN
  /\ nQuery = 0
  /\ nOpen = 0
  /\ nClose = 0
  /\ isConnected
  /\ isAuthenticated

IsMsg(l, m) == l.op = "incomingmessage" /\ l.msg = m

ScenarioStep(l) ==
  IF l.op = "getCurrentState" /\ Fresh THEN 1
  ELSE IF scn = 1 /\ IsMsg(l, ResponseMsg("QUERY", "open")) THEN 2
  ELSE IF scn = 2 /\ l.op = "getCurrentState" THEN 3
  ELSE IF scn = 3 /\ l.op = "setTargetState" /\ l.arg = CLOSED THEN 4
  ELSE IF scn = 4 /\ IsMsg(l, EventMsg("StateChange", "closing", Undefined)) THEN 5
  ELSE IF scn = 5 /\ IsMsg(l, EventMsg("StateChange", "closed", Undefined)) THEN 6
  ELSE 0

Record(l) ==
  /\ last' = l
  /\ scn' = ScenarioStep(l)

(* The second accessory instance before its construction. *)
NoOther ==
  [impl |-> Undefined, currentState |-> UNKNOWN, targetState |-> UNKNOWN,
   device |-> NoDevice]

Init ==
  /\ impl \in Impls
  /\ currentState = UNKNOWN
  /\ targetState = UNKNOWN
  /\ isConnected = FALSE
  /\ isAuthenticated = FALSE
  /\ nQuery = 0
  /\ nOpen = 0
  /\ nClose = 0
  /\ nAuth = 0
  /\ sinkValue = NoPush
  /\ pushed = <<>>
  /\ reply = <<>>
  /\ last = Op("constructor", NoValue, NoMsg)
  /\ scn = 0
  /\ device = IF impl = "accessory" THEN FirstDevice ELSE NoDevice
  /\ thisDevice = FirstDevice
  /\ other = NoOther
  /\ rcv = [d \in Devices |-> 0]

(* device 'incomingmessage' listener *)
IncomingMessageOf(M) ==
  \E m \in M :
    /\ Commit(handleIncomingMessage(This, m))
    /\ Record(Op("incomingmessage", NoValue, m))
    /\ UNCHANGED <<impl, isConnected, isAuthenticated>>

IncomingMessage == IncomingMessageOf(Messages)

(* CurrentDoorState GET *)
GetCurrentState ==
  /\ Commit(getCurrentStateHandler(This))
  /\ Record(Op("getCurrentState", NoValue, NoMsg))
  /\ UNCHANGED <<impl, isConnected, isAuthenticated>>

(* TargetDoorState GET *)
GetTargetState ==
  /\ Commit(getTargetStateHandler(This))
  /\ Record(Op("getTargetState", NoValue, NoMsg))
  /\ UNCHANGED <<impl, isConnected, isAuthenticated>>

(* TargetDoorState SET *)
SetTargetStateOf(V) ==
  \E newValue \in V :
    /\ Commit(setTargetStateHandler(This, newValue))
    /\ Record(Op("setTargetState", newValue, NoMsg))
    /\ UNCHANGED <<impl, isConnected, isAuthenticated>>

SetTargetState == SetTargetStateOf(CharacteristicValues)

(* device 'connected' listener: the Adapter has opened its connection and  *)
(* the listener calls authenticate().                                      *)
Connected ==
  /\ ~isConnected
  /\ isConnected' = TRUE
  /\ isAuthenticated' = FALSE
  /\ Commit(onConnected(This))
  /\ Record(Op("connected", NoValue, NoMsg))
  /\ UNCHANGED impl

(* device 'authenticated' listener: logs only. *)
Authenticated ==
  /\ isConnected
  /\ isAuthenticated' = TRUE
  /\ Commit(This)
  /\ Record(Op("authenticated", NoValue, NoMsg))
  /\ UNCHANGED <<impl, isConnected>>

(* Variant: the cached states are reset when the connection drops. *)
Disconnected_Reset ==
  /\ isConnected' = FALSE
  /\ isAuthenticated' = FALSE
  /\ Commit([This EXCEPT !.currentState = UNKNOWN, !.targetState = UNKNOWN])
  /\ Record(Op("disconnect", NoValue, NoMsg))
  /\ UNCHANGED impl

(* device 'disconnect' listener: logs only. *)
Disconnected ==
  /\ isConnected' = FALSE
  /\ isAuthenticated' = FALSE
  /\ Commit(This)
  /\ Record(Op("disconnect", NoValue, NoMsg))
  /\ UNCHANGED impl

(* device 'error' listener: logs only. *)
ErrorSignal ==
  /\ Commit(This)
  /\ Record(Op("error", NoValue, NoMsg))
  /\ UNCHANGED <<impl, isConnected, isAuthenticated>>

Next ==
  \/ IncomingMessage
  \/ GetCurrentState
  \/ GetTargetState
  \/ SetTargetState
  \/ Connected
  \/ Authenticated
  \/ Disconnected
  \/ ErrorSignal

Spec == Init /\ [][Next]_vars

(* Behaviours in which the hub never makes a set request. *)
NextNoSet ==
  \/ IncomingMessage
  \/ GetCurrentState
  \/ GetTargetState
  \/ Connected
  \/ Authenticated
  \/ Disconnected
  \/ ErrorSignal

SpecNoSet == Init /\ [][NextNoSet]_vars

(***************************************************************************)
(* A second accessory instance, for another device.  Its fields live in    *)
(* other; its handlers are the same code, run on its own fields.  The      *)
(* flags of its own RemootioDevice are read when a request arrives.        *)
(***************************************************************************)
MaxCalls == 3

(* Inputs of the two-instance behaviours. *)
Messages2 ==
  {EventMsg("StateChange", "closed", Undefined),
   EventMsg("RelayTrigger", "open", "api key"),
   ResponseMsg("QUERY", "open")}

Values2 == {OPEN, CLOSED}

ThisOther(c, a) ==
  [currentState |-> other.currentState, targetState |-> other.targetState,
   isConnected |-> c, isAuthenticated |-> a,
   nQuery |-> 0, nOpen |-> 0, nClose |-> 0, nAuth |-> 0,
   pushed |-> <<>>, reply |-> <<>>, device |-> other.device, rcv |-> rcv]

CommitOther(t) ==
  /\ other' = [other EXCEPT !.currentState = t.currentState,
                            !.targetState = t.targetState]
  /\ rcv' = t.rcv
  /\ Record(Op("other", NoValue, NoMsg))
  /\ UNCHANGED <<impl, currentState, targetState, isConnected, isAuthenticated,
                 nQuery, nOpen, nClose, nAuth, sinkValue, pushed, reply,
                 device, thisDevice>>

(* Construction of the second instance.  The accessory plugin assigns the  *)
(* module-level device and copies it to this.device (lines 173-174); the   *)
(* platform accessory assigns this.device only (line 549).                 *)
ConstructOther ==
  /\ other = NoOther
  /\ \E i \in Impls :
       /\ device' = IF i = "accessory" THEN SecondDevice ELSE device
       /\ other' = [impl |-> i, currentState |-> UNKNOWN, targetState |-> UNKNOWN,
                    device |-> SecondDevice]
  /\ Record(Op("constructOther", NoValue, NoMsg))
  /\ UNCHANGED <<impl, currentState, targetState, isConnected, isAuthenticated,
                 nQuery, nOpen, nClose, nAuth, sinkValue, pushed, reply,
                 thisDevice, rcv>>

OtherIncomingMessage ==
  /\ other # NoOther
  /\ \E m \in Messages2 :
       CommitOther(IF other.impl = "accessory"
                   THEN A_handleIncomingMessage(ThisOther(FALSE, FALSE), m)
                   ELSE P_handleIncomingMessage(ThisOther(FALSE, FALSE), m))

OtherGetCurrentState ==
  /\ other # NoOther
  /\ CommitOther(IF other.impl = "accessory"
                 THEN A_getCurrentStateHandler(ThisOther(FALSE, FALSE))
                 ELSE P_getCurrentStateHandler(ThisOther(FALSE, FALSE)))

OtherGetTargetState ==
  /\ other # NoOther
  /\ CommitOther(IF other.impl = "accessory"
                 THEN A_getTargetStateHandler(ThisOther(FALSE, FALSE))
                 ELSE P_getTargetStateHandler(ThisOther(FALSE, FALSE)))

OtherSetTargetState ==
  /\ other # NoOther
  /\ \E newValue \in Values2, c \in BOOLEAN :
       CommitOther(IF other.impl = "accessory"
                   THEN A_setTargetStateHandler(ThisOther(c, c), newValue)
                   ELSE P_setTargetStateHandler(ThisOther(c, c), newValue))

(* At most MaxCalls calls reach the two devices together. *)
CapTwo == rcv'[FirstDevice] + rcv'[SecondDevice] <= MaxCalls

NextTwo ==
  \/ IncomingMessageOf(Messages2) /\ CapTwo
  \/ GetCurrentState /\ CapTwo
  \/ GetTargetState /\ CapTwo
  \/ SetTargetStateOf(Values2) /\ CapTwo
  \/ Connected /\ CapTwo
  \/ Authenticated /\ CapTwo
  \/ ConstructOther
  \/ OtherIncomingMessage /\ CapTwo
  \/ OtherGetCurrentState /\ CapTwo
  \/ OtherGetTargetState /\ CapTwo
  \/ OtherSetTargetState /\ CapTwo

SpecTwo == Init /\ [][NextTwo]_vars

TypeOK ==
  /\ impl \in Impls
  /\ currentState \in {UNKNOWN, OPEN, CLOSED, OPENING, CLOSING, STOPPED}
  /\ targetState \in {UNKNOWN, OPEN, CLOSED, OPENING, CLOSING, STOPPED}
  /\ isConnected \in BOOLEAN
  /\ isAuthenticated \in BOOLEAN
  /\ nQuery \in 0..MaxCmds
  /\ nOpen \in 0..MaxCmds
  /\ nClose \in 0..MaxCmds
  /\ nAuth \in 0..MaxCmds

(***************************************************************************)
(* Vocabulary of the properties.  last names the operation of the step     *)
(* that led to the state, so last' in an action formula names the          *)
(* operation the step performs.                                            *)
(***************************************************************************)
Ok(v) == <<[err |-> NoError, value |-> v]>>

Failed(e) == <<[err |-> e, value |-> NoValue]>>

IsEvent(l, type) ==
  l.op = "incomingmessage" /\ l.msg.hasPayload /\ l.msg.hasEvent /\ l.msg.event.type = type

IsQueryResponse(l) ==
  /\ l.op = "incomingmessage"
  /\ l.msg.hasPayload
  /\ l.msg.hasResponse
  /\ l.msg.response.type = "QUERY"

(* The door state a state string of the device protocol names. *)
DoorStateOf(s) ==
  CASE s = "open" -> OPEN
    [] s = "closed" -> CLOSED
    [] s = "opening" -> OPENING
    [] s = "closing" -> CLOSING
    [] s = "stopped" -> STOPPED
    [] OTHER -> UNKNOWN

Handled == {"open", "closed", "opening", "closing"}

FiveStates == Handled \cup {"stopped"}

NoCommand ==
  /\ nQuery' = nQuery
  /\ nOpen' = nOpen
  /\ nClose' = nClose

(* C1, as stated: for every door state s in OPEN, CLOSED, OPENING,         *)
(* CLOSING, STOPPED, handling StateChange{s} leaves currentState = s and   *)
(* the next get_current_state returns s.                                   *)
C1_Original ==
  [][/\ (IsEvent(last', "StateChange") /\ last'.msg.event.state \in FiveStates)
          => currentState' = DoorStateOf(last'.msg.event.state)
     /\ (/\ IsEvent(last, "StateChange")
         /\ last.msg.event.state \in FiveStates
         /\ last'.op = "getCurrentState")
          => reply' = Ok(DoorStateOf(last.msg.event.state))]_vars

(* C1, amended: for s in OPEN, CLOSED, OPENING, CLOSING, handling          *)
(* StateChange{s} leaves currentState = s and the next get_current_state   *)
(* returns s; a StateChange carrying any other state (stopped, no sensor,  *)
(* none) leaves currentState unchanged.  Both implementations.             *)
C1_StateChangeSetsCurrent ==
  [][/\ (IsEvent(last', "StateChange") /\ last'.msg.event.state \in Handled)
          => currentState' = DoorStateOf(last'.msg.event.state)
     /\ (IsEvent(last', "StateChange") /\ last'.msg.event.state \notin Handled)
          => currentState' = currentState
     /\ (/\ IsEvent(last, "StateChange")
         /\ last.msg.event.state \in Handled
         /\ last'.op = "getCurrentState")
          => reply' = Ok(DoorStateOf(last.msg.event.state))]_vars

C1_Witness ==
  /\ IsEvent(last, "StateChange")
  /\ last.msg.event.state = "opening"
  /\ currentState = OPENING
  /\ sinkValue = OPENING

(* C2: handling StateChange{closed} always leaves targetState = CLOSED,    *)
(* in every implementation.                                                *)
C2_ClosedForcesTarget ==
  (IsEvent(last, "StateChange") /\ last.msg.event.state = "closed")
    => targetState = CLOSED

(* C3: RelayTrigger with keyType "api key" sets currentState to CLOSING    *)
(* when its state is open and to OPENING when it is closed; with any other *)
(* keyType (or none) it changes neither currentState nor targetState and   *)
(* pushes nothing, in every implementation.                                *)
C3_RelayTrigger ==
  [][IsEvent(last', "RelayTrigger") =>
       IF last'.msg.event.keyType = "api key"
       THEN /\ last'.msg.event.state = "open" => currentState' = CLOSING
            /\ last'.msg.event.state = "closed" => currentState' = OPENING
       ELSE /\ currentState' = currentState
            /\ targetState' = targetState
            /\ pushed' = <<>>]_vars

HubRequest(l) == l.op \in {"getCurrentState", "getTargetState", "setTargetState"}

(* C4, as stated: sendQuery, sendOpen and sendClose are issued only while  *)
(* connected and authenticated; a hub request made while either flag is    *)
(* false issues no command, fails, and leaves both states unchanged.       *)
C4_Original ==
  [][/\ ~NoCommand => (isConnected /\ isAuthenticated)
     /\ (HubRequest(last') /\ ~(isConnected /\ isAuthenticated))
          => /\ NoCommand
             /\ Len(reply') = 1
             /\ reply'[1].err # NoError
             /\ currentState' = currentState
             /\ targetState' = targetState]_vars

(* C4, amended: sendOpen and sendClose are issued only while connected and *)
(* authenticated; a set_target_state request with a value other than       *)
(* targetState made while either flag is false issues no command, fails    *)
(* with NotConnected and leaves both states unchanged.  (get_current_state *)
(* issues its sendQuery whatever the flags.)                               *)
C4_CommandGating ==
  [][/\ (nOpen' # nOpen \/ nClose' # nClose) => (isConnected /\ isAuthenticated)
     /\ (/\ last'.op = "setTargetState"
         /\ last'.arg # NoValue
         /\ last'.arg # targetState
         /\ ~(isConnected /\ isAuthenticated))
          => /\ NoCommand
             /\ reply' = Failed(NotConnected)
             /\ currentState' = currentState
             /\ targetState' = targetState]_vars

C4_Witness ==
  /\ last.op = "setTargetState"
  /\ last.arg = CLOSED
  /\ isConnected
  /\ ~isAuthenticated
  /\ reply = Failed(NotConnected)
  /\ targetState = OPEN

(* C5, as stated: set_target_state(OPEN) while not connected returns       *)
(* NotConnected and leaves targetState unchanged, whatever targetState is. *)
C5_Original ==
  [][(last'.op = "setTargetState" /\ last'.arg = OPEN /\ ~isConnected)
       => (reply' = Failed(NotConnected) /\ targetState' = targetState)]_vars

(* C5, amended: set_target_state(OPEN) while not connected leaves          *)
(* targetState unchanged and issues no command; it returns NotConnected    *)
(* when targetState is not already OPEN, and success when it is.           *)
C5_SetOpenDisconnected ==
  [][(last'.op = "setTargetState" /\ last'.arg = OPEN /\ ~isConnected)
       => /\ targetState' = targetState
          /\ NoCommand
          /\ reply' = IF targetState = OPEN THEN Ok(NoValue) ELSE Failed(NotConnected)]_vars

C5_Witness ==
  /\ last.op = "setTargetState"
  /\ last.arg = OPEN
  /\ ~isConnected
  /\ reply = Failed(NotConnected)
  /\ targetState = CLOSED

(* C6: set_target_state(x) with x equal to targetState issues no command,   *)
(* leaves targetState and currentState unchanged and returns success,      *)
(* whatever the connected / authenticated flags are.                       *)
C6_SameTargetNoCommand ==
  [][(last'.op = "setTargetState" /\ last'.arg = targetState)
       => /\ nOpen' = nOpen
          /\ nClose' = nClose
          /\ nQuery' = nQuery
          /\ targetState' = targetState
          /\ currentState' = currentState
          /\ reply' = Ok(NoValue)]_vars

C6_Witness ==
  /\ last.op = "setTargetState"
  /\ last.arg = OPEN
  /\ targetState = OPEN
  /\ ~isConnected
  /\ reply = Ok(NoValue)
  /\ nOpen = 1

(* C7: set_target_state(requested) with requested # targetState while      *)
(* connected and authenticated stores requested in targetState and returns *)
(* success; it issues exactly one sendOpen and no sendClose for OPEN,      *)
(* exactly one sendClose and no sendOpen for CLOSED, and no command for    *)
(* any other value.                                                        *)
C7_SetIssuesCommand ==
  [][(/\ last'.op = "setTargetState"
      /\ last'.arg # NoValue
      /\ last'.arg # targetState
      /\ isConnected
      /\ isAuthenticated)
       => /\ targetState' = last'.arg
          /\ reply' = Ok(NoValue)
          /\ currentState' = currentState
          /\ nQuery' = nQuery
          /\ nOpen' = IF last'.arg = OPEN THEN nOpen + 1 ELSE nOpen
          /\ nClose' = IF last'.arg = CLOSED THEN nClose + 1 ELSE nClose]_vars

C7_Witness ==
  /\ last.op = "setTargetState"
  /\ last.arg = CLOSED
  /\ targetState = CLOSED
  /\ isConnected
  /\ isAuthenticated
  /\ nClose = 1
  /\ nOpen = 1

C7_WitnessStopped ==
  /\ last.op = "setTargetState"
  /\ last.arg = STOPPED
  /\ targetState = STOPPED
  /\ nOpen = 0
  /\ nClose = 0

(* C8, as stated: a QueryResponse carrying s sets currentState = s for     *)
(* every door state s.                                                     *)
C8_Original ==
  [][(IsQueryResponse(last') /\ last'.msg.response.state \in FiveStates)
       => currentState' = DoorStateOf(last'.msg.response.state)]_vars

(* C8, amended: a QueryResponse carrying s in open, closed, opening,       *)
(* closing sets currentState = s whatever currentState was, an inferred    *)
(* OPENING or CLOSING included; one carrying any other state (stopped, no  *)
(* sensor) leaves currentState unchanged.                                  *)
C8_QueryResponseSetsCurrent ==
  [][IsQueryResponse(last') =>
       IF last'.msg.response.state \in Handled
       THEN /\ currentState' = DoorStateOf(last'.msg.response.state)
            /\ pushed' = <<currentState'>>
       ELSE /\ currentState' = currentState
            /\ pushed' = <<>>]_vars

C8_Witness ==
  /\ IsQueryResponse(last)
  /\ last.msg.response.state = "open"
  /\ currentState = OPEN
  /\ sinkValue = OPEN
  /\ impl = "platform"

(* C9: every get_current_state issues exactly one sendQuery and no other   *)
(* command; with currentState UNKNOWN it returns NoValueAvailable,         *)
(* otherwise currentState; it changes neither currentState nor             *)
(* targetState.                                                            *)
C9_GetCurrentQueries ==
  [][last'.op = "getCurrentState"
       => /\ nQuery' = nQuery + 1
          /\ nOpen' = nOpen
          /\ nClose' = nClose
          /\ nAuth' = nAuth
          /\ currentState' = currentState
          /\ targetState' = targetState
          /\ reply' = IF currentState = UNKNOWN
                      THEN Failed(NoValueAvailable)
                      ELSE Ok(currentState)]_vars

C9_Witness ==
  /\ last.op = "getCurrentState"
  /\ currentState = UNKNOWN
  /\ reply = Failed(NoValueAvailable)
  /\ nQuery = 1

(* C10: with no set_target_state call in the behaviour, get_target_state   *)
(* called while currentState is CLOSED returns CLOSED.                     *)
C10_ClosedTargetReturned ==
  (last.op = "getTargetState" /\ currentState = CLOSED) => reply = Ok(CLOSED)

(* C11: get_target_state with targetState UNKNOWN returns NoValueAvailable *)
(* and changes nothing when currentState is UNKNOWN too; with currentState *)
(* known it stores currentState in targetState and returns it; with        *)
(* targetState known it returns targetState unchanged.  It never issues a  *)
(* command and never changes currentState.                                 *)
C11_GetTargetAdopts ==
  [][last'.op = "getTargetState"
       => /\ NoCommand
          /\ nAuth' = nAuth
          /\ currentState' = currentState
          /\ IF targetState = UNKNOWN
             THEN IF currentState = UNKNOWN
                  THEN targetState' = UNKNOWN /\ reply' = Failed(NoValueAvailable)
                  ELSE targetState' = currentState /\ reply' = Ok(currentState)
             ELSE targetState' = targetState /\ reply' = Ok(targetState)]_vars

C11_Witness ==
  /\ last.op = "getTargetState"
  /\ nAuth = 0
  /\ currentState = OPENING
  /\ targetState = OPENING
  /\ reply = Ok(OPENING)

Lifecycle == {"authenticated", "disconnect", "error"}

(* C12: the Authenticated, Disconnected and Error signals leave            *)
(* currentState and targetState unchanged and issue no command; so         *)
(* get_current_state and get_target_state called while disconnected return *)
(* the last known value, not an error, when that value is known.           *)
C12_LifecycleKeepsState ==
  [][/\ last'.op \in Lifecycle
          => /\ currentState' = currentState
             /\ targetState' = targetState
             /\ NoCommand
             /\ nAuth' = nAuth
             /\ pushed' = <<>>
     /\ (last'.op = "getCurrentState" /\ ~isConnected /\ currentState # UNKNOWN)
          => reply' = Ok(currentState)
     /\ (last'.op = "getTargetState" /\ ~isConnected /\ targetState # UNKNOWN)
          => reply' = Ok(targetState)
     /\ (last.op = "disconnect" /\ currentState # UNKNOWN /\ last'.op = "getCurrentState")
          => reply' = Ok(currentState)]_vars

C12_Witness ==
  /\ last.op = "disconnect"
  /\ nAuth = 1
  /\ ~isConnected
  /\ currentState = OPEN
  /\ targetState = OPEN
  /\ nOpen = 1

(* C13: currentState changes only in a step that handles a StateChange,    *)
(* RelayTrigger or QueryResponse event; the hub requests and the lifecycle *)
(* signals leave it unchanged.                                             *)
C13_CurrentOnlyByEvents ==
  [][currentState' # currentState
       => \/ IsEvent(last', "StateChange")
          \/ IsEvent(last', "RelayTrigger")
          \/ IsQueryResponse(last')]_vars

C13_Witness ==
  /\ last.op = "setTargetState"
  /\ last.arg = OPEN
  /\ nOpen = 1
  /\ targetState = OPEN
  /\ currentState = CLOSED

(* C14, as stated: targetState changes only in a set_target_state step or  *)
(* in the handling of StateChange{closed}.                                 *)
C14_Original ==
  [][targetState' # targetState
       => \/ last'.op = "setTargetState"
          \/ (IsEvent(last', "StateChange") /\ last'.msg.event.state = "closed")]_vars

(* C14, amended: targetState changes only in a set_target_state step, in   *)
(* the handling of StateChange{closed}, or in a get_target_state step      *)
(* taken with targetState UNKNOWN and currentState known, which stores     *)
(* currentState in it.                                                     *)
C14_TargetOnlyBy ==
  [][targetState' # targetState
       => \/ last'.op = "setTargetState"
          \/ (IsEvent(last', "StateChange") /\ last'.msg.event.state = "closed")
          \/ /\ last'.op = "getTargetState"
             /\ targetState = UNKNOWN
             /\ currentState # UNKNOWN
             /\ targetState' = currentState]_vars

C14_Witness ==
  /\ last.op = "getTargetState"
  /\ nAuth = 0
  /\ currentState = OPEN
  /\ targetState = OPEN
  /\ impl = "platform"

(* C15: each Connected signal causes exactly one authenticate() call and   *)
(* changes neither currentState nor targetState; nothing else causes an    *)
(* authenticate() call.                                                    *)
C15_AuthenticateOnConnected ==
  [][/\ last'.op = "connected"
          => /\ nAuth' = nAuth + 1
             /\ NoCommand
             /\ currentState' = currentState
             /\ targetState' = targetState
     /\ nAuth' # nAuth => last'.op = "connected"]_vars

C15_Witness ==
  /\ last.op = "connected"
  /\ nAuth = 2
  /\ isConnected
  /\ ~isAuthenticated

(* C16: set_target_state with an undefined or missing value returns        *)
(* InvalidValue, issues no command and leaves currentState and targetState *)
(* unchanged, whatever the connectivity flags are.                         *)
C16_UndefinedRejected ==
  [][(last'.op = "setTargetState" /\ last'.arg = NoValue)
       => /\ reply' = Failed(InvalidValue)
          /\ NoCommand
          /\ nAuth' = nAuth
          /\ currentState' = currentState
          /\ targetState' = targetState]_vars

C16_Witness ==
  /\ last.op = "setTargetState"
  /\ last.arg = NoValue
  /\ isConnected
  /\ isAuthenticated
  /\ reply = Failed(InvalidValue)

KnownStates == {OPEN, CLOSED, OPENING, CLOSING, STOPPED}

(* C17: UNKNOWN is never delivered: no push carries it, get_current_state  *)
(* and get_target_state never return it as a success value, and once       *)
(* currentState has left UNKNOWN no step returns it to UNKNOWN.            *)
C17_UnknownNeverDelivered ==
  [][/\ \A i \in 1..Len(pushed') : pushed'[i] \in KnownStates
     /\ sinkValue' # sinkValue => sinkValue' \in KnownStates
     /\ last'.op \in {"getCurrentState", "getTargetState"}
          => \A i \in 1..Len(reply') :
               reply'[i].err = NoError => reply'[i].value \in KnownStates
     /\ currentState # UNKNOWN => currentState' # UNKNOWN]_vars

C17_Witness ==
  /\ last.op = "getTargetState"
  /\ targetState = UNKNOWN
  /\ currentState = UNKNOWN
  /\ reply = Failed(NoValueAvailable)
  /\ nQuery = 1

(* C20: while connected and authenticated, after a StateChange{open} has   *)
(* arrived with targetState CLOSED, set_target_state(CLOSED) issues        *)
(* exactly one sendClose.                                                  *)
C20_CloseAfterExternalOpen ==
  [][(/\ IsEvent(last, "StateChange")
      /\ last.msg.event.state = "open"
      /\ currentState = OPEN
      /\ targetState = CLOSED
      /\ isConnected
      /\ isAuthenticated
      /\ last'.op = "setTargetState"
      /\ last'.arg = CLOSED)
       => (nClose' = nClose + 1 /\ nOpen' = nOpen)]_vars

(* C18: the end-to-end scenario on a fresh, connected and authenticated    *)
(* instance: get_current_state fails and issues one query; after           *)
(* QueryResponse{open} get_current_state returns OPEN; set_target_state    *)
(* (CLOSED) issues exactly one sendClose and sets targetState = CLOSED;    *)
(* StateChange{closing} sets currentState = CLOSING; StateChange{closed}   *)
(* sets currentState = CLOSED with targetState still CLOSED; no sendOpen   *)
(* is issued at any point.                                                 *)
C18_Scenario ==
  /\ scn = 1 => (reply = Failed(NoValueAvailable) /\ nQuery = 1)
  /\ scn = 2 => (currentState = OPEN /\ nQuery = 1)
  /\ scn = 3 => (reply = Ok(OPEN) /\ currentState = OPEN /\ nQuery = 2)
  /\ scn = 4 => (reply = Ok(NoValue) /\ targetState = CLOSED /\ currentState = OPEN)
  /\ scn = 5 => (currentState = CLOSING /\ targetState = CLOSED)
  /\ scn = 6 => (currentState = CLOSED /\ targetState = CLOSED)
  /\ scn >= 1 => nOpen = 0
  /\ scn >= 4 => nClose = 1
  /\ scn \in 1..3 => nClose = 0

C18_Witness ==
  /\ scn = 6
  /\ currentState = CLOSED
  /\ targetState = CLOSED
  /\ nClose = 1

OwnOps ==
  {"incomingmessage", "getCurrentState", "getTargetState", "setTargetState",
   "connected", "authenticated", "disconnect", "error"}

(* C19: two accessory instances share no mutable state: a step of one      *)
(* instance never changes the other's currentState or targetState, and the *)
(* calls its handlers make reach its own RemootioDevice only, also after   *)
(* the construction of the second instance has reassigned the module-level *)
(* device variable.                                                        *)
C19_InstancesIsolated ==
  [][/\ last'.op \in OwnOps
          => /\ other' = other
             /\ rcv'[SecondDevice] = rcv[SecondDevice]
             /\ rcv'[FirstDevice] - rcv[FirstDevice]
                  = (nQuery' + nOpen' + nClose' + nAuth')
                    - (nQuery + nOpen + nClose + nAuth)
     /\ last'.op = "other"
          => /\ currentState' = currentState
             /\ targetState' = targetState
             /\ sinkValue' = sinkValue
             /\ rcv'[FirstDevice] = rcv[FirstDevice]
             /\ rcv'[SecondDevice] >= rcv[SecondDevice]
     /\ last'.op = "constructOther"
          => /\ currentState' = currentState
             /\ targetState' = targetState
             /\ thisDevice' = thisDevice
             /\ rcv' = rcv]_vars

C19_Witness ==
  /\ last.op = "getCurrentState"
  /\ impl = "accessory"
  /\ other.impl = "accessory"
  /\ device = SecondDevice
  /\ thisDevice = FirstDevice
  /\ other.currentState = OPEN
  /\ currentState = CLOSED
  /\ rcv[FirstDevice] = 1
  /\ rcv[SecondDevice] = 1

(* C21: the value last pushed to the sink equals currentState whenever     *)
(* currentState is known: a step that sets currentState pushes exactly     *)
(* that value, and nothing is pushed without currentState being set to it. *)
C21_SinkFollowsCurrent ==
  /\ currentState # UNKNOWN => sinkValue = currentState
  /\ sinkValue # NoPush => sinkValue = currentState
  /\ \A i \in 1..Len(pushed) : pushed[i] = currentState

C21_Witness ==
  /\ IsEvent(last, "RelayTrigger")
  /\ last.msg.event.state = "closed"
  /\ currentState = OPENING
  /\ sinkValue = OPENING
  /\ pushed = <<OPENING>>

(* C22: with no set_target_state call in the behaviour, a successful       *)
(* get_target_state returns OPEN or CLOSED, never a transitional state.    *)
C22_TargetNeverTransitional ==
  (last.op = "getTargetState" /\ Len(reply) = 1 /\ reply[1].err = NoError)
    => reply[1].value \in {OPEN, CLOSED}

(* C23: every hub request handler answers its caller exactly once, in the  *)
(* step that handles the request: one callback, with an error or with a    *)
(* result.                                                                 *)
C23_AnswersOnce ==
  /\ HubRequest(last)
       => /\ Len(reply) = 1
          /\ reply[1].err \in {NoError, NoValueAvailable, InvalidValue, NotConnected}
          /\ reply[1].err # NoError => reply[1].value = NoValue
          /\ (reply[1].err = NoError /\ last.op # "setTargetState")
               => reply[1].value \in KnownStates
  /\ ~HubRequest(last) => reply = <<>>

C23_Witness ==
  /\ last.op = "setTargetState"
  /\ last.arg = STOPPED
  /\ isConnected
  /\ ~isAuthenticated
  /\ reply = Failed(NotConnected)
  /\ targetState = UNKNOWN

====
